---- MODULE Spec2Model ----
(***************************************************************************)
(* ODH analysis (src/ODH_class.py): leak events of inert-gas sources, the  *)
(* fan-state distribution of a volume, the oxygen concentration model, the *)
(* fatality mapping and the aggregation of the fatality rate phi with its  *)
(* ODH class.                                                              *)
(*                                                                         *)
(* Python floats are modelled as decimal floating point numbers with five  *)
(* significant digits, every operation rounded to nearest (ties to even),  *)
(* as IEEE doubles round every operation to 53 bits.  A physical quantity  *)
(* (a pint Quantity) is its magnitude in one fixed unit system (m^3,       *)
(* m^3/s, s, 1/hr); a unit conversion does not change the physical value.  *)
(***************************************************************************)
EXTENDS Integers, Sequences, FiniteSets, TLC

VARIABLES
    Fluids,         \* odh_volume.Fluids
    Leaks,          \* odh_source.Leaks of every source: entries in insertion order
    leak_status,    \* how the last leak() call ended
    attrs,          \* instance attributes set on the volume (what hasattr sees)
    Fan_flowrates,  \* odh_volume.Fan_flowrates: sequence of <<probability, flow>>
    PFD_system,     \* odh_volume.PFD_system once the attribute holds a number
    phi,            \* odh_volume.phi
    odh_status,     \* how the last odh() call ended, and the class it printed
    calls,          \* number of leak() and of odh() calls made so far
    pc,             \* the last method called on the objects, or "call"/"ret"
                    \* around one function call
    args,           \* arguments of that call
    ret             \* its result

vars == <<Fluids, Leaks, leak_status, attrs, Fan_flowrates, PFD_system, phi, odh_status,
          calls, pc, args, ret>>

-----------------------------------------------------------------------------
(* Python float arithmetic: m * 10^e with m = 0 or 10000 <= |m| <= 99999.   *)

Fl(m, e) == [m |-> m, e |-> e]

Zero == Fl(0, 0)

Abs(n) == IF n < 0 THEN -n ELSE n

Sgn(n) == IF n < 0 THEN -1 ELSE 1

RECURSIVE NumDigits(_)
NumDigits(n) == IF n < 10 THEN 1 ELSE 1 + NumDigits(n \div 10)

\* n * 10^e (n > 0) rounded to five digits, ties to even; sticky: digits of the
\* exact value below n are not all zero.
RoundPos(n, e, sticky) ==
    LET d == NumDigits(n) IN
    IF d <= 5 THEN Fl(n * 10^(5 - d), e - (5 - d))
    ELSE LET s    == d - 5
             unit == 10^s
             q    == n \div unit
             r    == n % unit
             half == unit \div 2
             up   == r > half \/ (r = half /\ (sticky \/ q % 2 = 1))
             q2   == IF up THEN q + 1 ELSE q
         IN  IF q2 = 100000 THEN Fl(10000, e + s + 1) ELSE Fl(q2, e + s)

Round(n, e, sticky) ==
    IF n = 0 THEN Zero
    ELSE LET f == RoundPos(Abs(n), e, sticky) IN Fl(Sgn(n) * f.m, f.e)

\* The float literal n * 10^e, e.g. Dec(18, -2) for 0.18.
Dec(n, e) == Round(n, e, FALSE)

One == Dec(1, 0)

FNeg(a) == Fl(-a.m, a.e)

\* a * b
FMul(a, b) ==
    IF a.m = 0 \/ b.m = 0 THEN Zero
    ELSE LET x  == Abs(a.m)
             y  == Abs(b.m)
             p2 == x * (y % 1000)
             hi == x * (y \div 1000) + p2 \div 1000
             f  == RoundPos(hi, a.e + b.e + 3, p2 % 1000 # 0)
         IN  Fl(Sgn(a.m) * Sgn(b.m) * f.m, f.e)

\* a / b (b # 0: Python raises ZeroDivisionError otherwise)
FDiv(a, b) ==
    IF a.m = 0 THEN Zero
    ELSE LET x  == Abs(a.m)
             y  == Abs(b.m)
             q1 == (x * 10000) \div y
             r1 == (x * 10000) % y
             q2 == (r1 * 1000) \div y
             r2 == (r1 * 1000) % y
             f  == RoundPos(q1 * 1000 + q2, a.e - b.e - 7, r2 # 0)
         IN  Fl(Sgn(a.m) * Sgn(b.m) * f.m, f.e)

\* a + b
FAdd(a, b) ==
    IF a.m = 0 THEN b
    ELSE IF b.m = 0 THEN a
    ELSE LET hi == IF a.e >= b.e THEN a ELSE b
             lo == IF a.e >= b.e THEN b ELSE a
             d  == hi.e - lo.e
         IN  IF d <= 4
             THEN Round(hi.m * 10^d + lo.m, lo.e, FALSE)
             ELSE LET L   == Abs(lo.m) * 1000
                      t   == IF d <= 8 THEN L \div 10^d ELSE 0
                      rem == IF d <= 8 THEN L % 10^d # 0 ELSE TRUE
                      H   == Abs(hi.m) * 1000
                      n   == IF Sgn(hi.m) = Sgn(lo.m) THEN H + t
                             ELSE H - t - (IF rem THEN 1 ELSE 0)
                      f   == RoundPos(n, hi.e - 3, rem)
                  IN  Fl(Sgn(hi.m) * f.m, f.e)

\* a - b
FSub(a, b) == FAdd(a, FNeg(b))

\* The sign of a - b is exact, so the comparisons are.
FLt(a, b) == FSub(a, b).m < 0

FLe(a, b) == FSub(a, b).m <= 0

FAbs(a) == Fl(Abs(a.m), a.e)

FMin(a, b) == IF FLt(b, a) THEN b ELSE a

\* 10^(a/10) and 10^(b/100), a, b = 0..9, in units of 1e-8.
PowTenths == <<100000000, 125892541, 158489319, 199526231, 251188643,
               316227766, 398107171, 501187234, 630957344, 794328235>>

PowHundredths == <<100000000, 102329299, 104712855, 107151931, 109647820,
                   112201845, 114815362, 117489755, 120226443, 123026877>>

\* a * b / 1e8 for a, b in units of 1e-8.
Mul8(a, b) ==
    LET ah == a \div 10000
        al == a % 10000
        bh == b \div 10000
        bl == b % 10000
    IN  ah * bh + (ah * bl + al * bh + (al * bl) \div 10000) \div 10000

\* 10^(rr * 1e-6) for rr = 0..9999, in units of 1e-8: the series of
\* exp(z), z = rr * 1e-6 * ln 10.
Exp8(rr) ==
    LET z  == rr * 230 + (rr * 2585) \div 10000
        z2 == Mul8(z, z)
        z3 == Mul8(z2, z)
        z4 == Mul8(z3, z)
    IN  10^8 + z + z2 \div 2 + z3 \div 6 + z4 \div 24

\* 10^(U * 1e-6) for an integer U; a double underflows to 0.0 below 1e-324.
PowFixed(U) ==
    LET K == (U - (U % 1000000)) \div 1000000
        F == U % 1000000
        m == Mul8(Mul8(PowTenths[F \div 100000 + 1],
                       PowHundredths[((F \div 10000) % 10) + 1]),
                  Exp8(F % 10000))
    IN  IF K < -324 THEN Zero ELSE RoundPos(m, K - 8, FALSE)

\* y * 1e6 rounded down to an integer (|y| < 1000).
ToMicro(y) ==
    IF y.e + 6 >= 0 THEN y.m * 10^(y.e + 6)
    ELSE IF y.e + 6 < -9 THEN (IF y.m < 0 THEN -1 ELSE 0)
    ELSE LET p == 10^(-(y.e + 6))
         IN  (y.m - (y.m % p)) \div p

\* 10 ** y
Pow10(y) ==
    IF y.m < 0 /\ y.e >= -1 THEN Zero ELSE PowFixed(ToMicro(y))

\* math.e ** y = 10 ** (y * log10(e)), log10(e) = 0.43429448
PowE(y) ==
    IF y.m = 0 THEN One
    ELSE IF y.m < 0 /\ y.e >= -1 THEN Zero
    ELSE LET x  == Abs(y.m)
             v4 == x * 4342 + (x * 9448) \div 10000
             w  == IF y.e + 2 >= 0 THEN v4 * 10^(y.e + 2)
                   ELSE IF y.e + 2 < -9 THEN 0
                   ELSE v4 \div 10^(-(y.e + 2))
         IN  PowFixed(IF y.m < 0 THEN -w - 1 ELSE w)

-----------------------------------------------------------------------------
(* odh_volume.fatality_prob                                                *)

\* The interpolated branch: 10**(6.6956-76.087*O2_conc)
fatality_interp(O2_conc) ==
    Pow10(FSub(Dec(66956, -4), FMul(Dec(76087, -3), O2_conc)))

fatality_prob_gt(O2_conc) ==
    IF FLt(Dec(18, -2), O2_conc) THEN Zero
    ELSE IF FLe(O2_conc, Dec(88, -3)) THEN One
    ELSE fatality_interp(O2_conc)

fatality_prob(O2_conc) ==
    IF FLe(Dec(18, -2), O2_conc) THEN Zero
    ELSE IF FLe(O2_conc, Dec(88, -3)) THEN One
    ELSE fatality_interp(O2_conc)

-----------------------------------------------------------------------------
(* The object model's variables while one function call is under check.    *)

NotRun == [raised |-> "not run", class |-> -1]

NoObjects ==
    /\ Fluids = {}
    /\ Leaks = <<>>
    /\ leak_status = "none"
    /\ attrs = {}
    /\ Fan_flowrates = <<>>
    /\ PFD_system = Zero
    /\ phi = Zero
    /\ odh_status = NotRun
    /\ calls = [leak |-> 0, odh |-> 0]

ObjectsUnchanged ==
    UNCHANGED <<Fluids, Leaks, leak_status, attrs, Fan_flowrates, PFD_system, phi,
                odh_status, calls>>

-----------------------------------------------------------------------------
(* fatality_prob on two concentrations                                     *)

MaxConcStep == 55

\* 0, 0.004, ..., and the floats next to the two thresholds 0.088 and 0.18
ConcGrid ==
    {Dec(4 * k, -3) : k \in 0..MaxConcStep}
        \cup {Dec(87999, -6), Dec(88001, -6), Dec(17999, -5), Dec(18001, -5)}

InitFatality ==
    /\ NoObjects
    /\ pc = "call"
    /\ args \in {<<c1, c2>> \in ConcGrid \X ConcGrid : FLe(c1, c2)}
    /\ ret = <<>>

CallFatality ==
    /\ pc = "call"
    /\ ret' = <<fatality_prob(args[1]), fatality_prob(args[2])>>
    /\ pc' = "ret"
    /\ UNCHANGED args
    /\ ObjectsUnchanged

NextFatality == CallFatality

SpecFatality == InitFatality /\ [][NextFatality]_vars

\* C8 (as amended): fatality_prob returns 0 for every C >= 0.18 and 1 for every
\* C <= 0.088, its result lies in [0, 1] and is non-increasing in C; the
\* interpolated branch does not meet the two clamped values: at C = 0.088 it
\* gives a value in [0.9997, 1) and at C = 0.18 a value in (0, 1.0001e-7].
C8_FatalityClampedMonotone ==
    pc = "ret" =>
        /\ \A i \in 1..2 :
            /\ FLe(Dec(18, -2), args[i]) => ret[i] = Zero
            /\ FLe(args[i], Dec(88, -3)) => ret[i] = One
            /\ FLe(Zero, ret[i]) /\ FLe(ret[i], One)
            /\ args[i] = Dec(88, -3) =>
                   /\ FLt(fatality_interp(args[i]), ret[i])
                   /\ FLe(Dec(9997, -4), fatality_interp(args[i]))
            /\ args[i] = Dec(18, -2) =>
                   /\ FLt(ret[i], fatality_interp(args[i]))
                   /\ FLe(fatality_interp(args[i]), Dec(10001, -11))
        /\ FLe(ret[2], ret[1])

\* C8 witness: the threshold 0.088 and a concentration of the interpolated range
\* have been mapped, the latter strictly between 0 and 1.
C8_Witness ==
    /\ pc = "ret"
    /\ args[1] = Dec(88, -3)
    /\ args[2] = Dec(12, -2)
    /\ FLt(Zero, ret[2])
    /\ FLt(ret[2], ret[1])

\* C8 as stated: clamped, in [0, 1], non-increasing, and the interpolated branch
\* takes the value 1 at C = 0.088 and the value 0 at C = 0.18 (no jump).
C8_NoJumpAtThresholds ==
    pc = "ret" =>
        /\ \A i \in 1..2 :
            /\ FLe(Dec(18, -2), args[i]) => ret[i] = Zero
            /\ FLe(args[i], Dec(88, -3)) => ret[i] = One
            /\ FLe(Zero, ret[i]) /\ FLe(ret[i], One)
            /\ args[i] \in {Dec(88, -3), Dec(18, -2)} =>
                   fatality_interp(args[i]) = ret[i]
        /\ FLe(ret[2], ret[1])

-----------------------------------------------------------------------------
(* conc_vent                                                               *)

\* Steady state instead of the transient in the third regime.
conc_vent_steady(V, R, Q, t) ==
    IF FLt(Zero, Q)
    THEN FMul(FDiv(Dec(21, -2), FAdd(Q, R)),
              FAdd(Q, FMul(R, PowE(FNeg(FMul(FDiv(FAdd(Q, R), V), t))))))
    ELSE IF FLe(FAbs(Q), R)
    THEN FMul(Dec(21, -2), PowE(FNeg(FMul(FDiv(R, V), t))))
    ELSE FMul(Dec(21, -2), FSub(One, FDiv(R, FAbs(Q))))

conc_vent(V, R, Q, t) ==
    IF FLt(Zero, Q)
    THEN FMul(FDiv(Dec(21, -2), FAdd(Q, R)),
              FAdd(Q, FMul(R, PowE(FNeg(FMul(FDiv(FAdd(Q, R), V), t))))))
    ELSE IF FLe(FAbs(Q), R)
    THEN FMul(Dec(21, -2), PowE(FNeg(FMul(FDiv(R, V), t))))
    ELSE FMul(Dec(21, -2),
              FSub(One, FMul(FDiv(R, FAbs(Q)),
                             FSub(One, PowE(FNeg(FDiv(FMul(FAbs(Q), t), V)))))))

MaxFlowStep == 20

\* V in m^3, R and Q in steps of 0.01 m^3/s, t in s
ConcVentArgs ==
    {<<V, Dec(r, -2), Dec(q, -2), t>> :
        V \in {Dec(1, 0), Dec(50, 0)},
        r \in 0..MaxFlowStep,
        q \in (-MaxFlowStep)..MaxFlowStep,
        t \in {Zero, Dec(10, 0)}}

InitConcVent ==
    /\ NoObjects
    /\ pc = "call"
    /\ args \in ConcVentArgs
    /\ ret = <<>>

CallConcVent ==
    /\ pc = "call"
    /\ ret' = conc_vent(args[1], args[2], args[3], args[4])
    /\ pc' = "ret"
    /\ UNCHANGED args
    /\ ObjectsUnchanged

NextConcVent == CallConcVent

SpecConcVent == InitConcVent /\ [][NextConcVent]_vars

\* C9 (as amended): at t = 0 conc_vent returns exactly 0.21 in the two regimes
\* with Q <= 0 (|Q| <= R, Q = 0 and |Q| = R included, and |Q| > R), and 0.21 to
\* within one unit in the last place when Q > 0.
C9_InitialConcentration ==
    (pc = "ret" /\ args[4] = Zero) =>
        IF FLt(Zero, args[3])
        THEN FLe(FAbs(FSub(ret, Dec(21, -2))), Dec(1, -5))
        ELSE ret = Dec(21, -2)

\* C9 witness: the boundary |Q| = R > 0 of the second regime at t = 0.
C9_Witness ==
    /\ pc = "ret"
    /\ args[4] = Zero
    /\ FLt(Zero, args[2])
    /\ args[3] = FNeg(args[2])
    /\ ret = Dec(21, -2)

\* C9 as stated: exactly 0.21 at t = 0 in every regime.
C9_ExactlyAmbientAtZero ==
    (pc = "ret" /\ args[4] = Zero) => ret = Dec(21, -2)

-----------------------------------------------------------------------------
(* odh_volume.odh_class                                                    *)

Raised(what) == [raised |-> what, class |-> -1]

Returned(class) == [raised |-> "", class |-> class]

\* <= where the code has <
odh_class_le(fatality_rate) ==
    IF FLe(fatality_rate, Dec(1, -7)) THEN Returned(0)
    ELSE IF FLe(fatality_rate, Dec(1, -5)) THEN Returned(1)
    ELSE IF FLe(fatality_rate, Dec(1, -3)) THEN Returned(2)
    ELSE Raised("Exception: ODH fatality rate is too high")

\* odh_class of a volume whose phi is fatality_rate (1/hr)
odh_class(fatality_rate) ==
    IF FLt(fatality_rate, Dec(1, -7)) THEN Returned(0)
    ELSE IF FLt(fatality_rate, Dec(1, -5)) THEN Returned(1)
    ELSE IF FLt(fatality_rate, Dec(1, -3)) THEN Returned(2)
    ELSE Raised("Exception: ODH fatality rate is too high")

MaxPhiExp == 30

\* fatality rates around every power of ten from 1e-(MaxPhiExp-4) to 0.99999
PhiGrid ==
    {Dec(m, -e) : m \in {50000, 99990, 99999, 10000, 10001}, e \in 5..MaxPhiExp}
        \cup {Zero}

InitOdhClass ==
    /\ Fluids = {}
    /\ Leaks = <<>>
    /\ leak_status = "none"
    /\ attrs = {"phi"}
    /\ Fan_flowrates = <<>>
    /\ PFD_system = Zero
    /\ phi \in PhiGrid
    /\ odh_status = NotRun
    /\ calls = [leak |-> 0, odh |-> 0]
    /\ pc = "call"
    /\ args = <<>>
    /\ ret = <<>>

CallOdhClass ==
    /\ pc = "call"
    /\ ret' = odh_class(phi)
    /\ pc' = "ret"
    /\ UNCHANGED args
    /\ ObjectsUnchanged

NextOdhClass == CallOdhClass

SpecOdhClass == InitOdhClass /\ [][NextOdhClass]_vars

\* C3: odh_class maps phi < 1e-7 to class 0, 1e-7 <= phi < 1e-5 to class 1 (phi =
\* 1e-7 is class 1, phi = 9.999e-8 is class 0), 1e-5 <= phi < 1e-3 to class 2, and
\* raises, returning no class, when phi >= 1e-3.
C3_ClassBands ==
    pc = "ret" =>
        /\ FLt(phi, Dec(1, -7)) => ret = Returned(0)
        /\ (FLe(Dec(1, -7), phi) /\ FLt(phi, Dec(1, -5))) => ret = Returned(1)
        /\ (FLe(Dec(1, -5), phi) /\ FLt(phi, Dec(1, -3))) => ret = Returned(2)
        /\ FLe(Dec(1, -3), phi) => (ret.raised # "" /\ ret.class = -1)
        /\ phi = Dec(1, -7) => ret.class = 1
        /\ phi = Dec(9999, -11) => ret.class = 0

\* C3 witness: the closed lower bound 1e-7 has been classified as class 1.
C3_Witness ==
    /\ pc = "ret"
    /\ phi = Dec(1, -7)
    /\ ret = Returned(1)

-----------------------------------------------------------------------------
(* odh_volume.PFD_system                                                   *)

\* PFD_system_on after the loop over System_fail_prob
RECURSIVE PFD_system_on(_)
PFD_system_on(System_fail_prob) ==
    IF System_fail_prob = <<>> THEN One
    ELSE FMul(PFD_system_on(SubSeq(System_fail_prob, 1, Len(System_fail_prob) - 1)),
              FSub(One, System_fail_prob[Len(System_fail_prob)]))

\* The probabilities added as if the failures were mutually exclusive.
RECURSIVE PFD_system_sum(_)
PFD_system_sum(System_fail_prob) ==
    IF System_fail_prob = <<>> THEN Zero
    ELSE FAdd(PFD_system_sum(SubSeq(System_fail_prob, 1, Len(System_fail_prob) - 1)),
              System_fail_prob[Len(System_fail_prob)])

\* The value the method stores in self.PFD_system
PFD_system_value(System_fail_prob) ==
    FSub(One, PFD_system_on(System_fail_prob))

\* volume.PFD_system(System_fail_prob): the attribute replaces the method, so a
\* second call raises TypeError ('float' object is not callable).
PFD_system_method(System_fail_prob) ==
    /\ "PFD_system" \notin attrs
    /\ PFD_system' = PFD_system_value(System_fail_prob)
    /\ attrs' = attrs \cup {"PFD_system"}

MaxSystemElems == 3

\* PFD_power and PFD_odh of the module, and the ends and the middle of [0, 1]
ProbGrid == {Zero, Dec(1, -4), Dec(2, -3), Dec(5, -1), One}

RECURSIVE SeqsUpTo(_, _)
SeqsUpTo(S, n) ==
    IF n = 0 THEN {<<>>}
    ELSE LET shorter == SeqsUpTo(S, n - 1)
         IN  shorter \cup {Append(q, x) : q \in shorter, x \in S}

InitPFD ==
    /\ NoObjects
    /\ pc = "call"
    /\ args \in SeqsUpTo(ProbGrid, MaxSystemElems)
    /\ ret = <<>>

CallPFD ==
    /\ pc = "call"
    /\ PFD_system_method(args)
    /\ pc' = "ret"
    /\ UNCHANGED <<Fluids, Leaks, leak_status, Fan_flowrates, phi, odh_status, calls,
                   args, ret>>

NextPFD == CallPFD

SpecPFD == InitPFD /\ [][NextPFD]_vars

\* C2 (as amended): the probability of no response is the independent-event
\* combination 1 - (1 - p1)(1 - p2)...(1 - pk) of the probabilities passed to
\* PFD_system: it is 1 as soon as one of them is 1, it is 0 when all are 0, and
\* for two probabilities [power, detection] it is
\* P(power-fail) + P(power-ok) x P(detection-fail), up to rounding.
C2_IndependentCombination ==
    pc = "ret" =>
        /\ Len(args) = 0 => PFD_system = Zero
        /\ Len(args) = 1 => PFD_system = FSub(One, FSub(One, args[1]))
        /\ Len(args) = 2 =>
              /\ PFD_system =
                    FSub(One, FMul(FSub(One, args[1]), FSub(One, args[2])))
              /\ FLe(FAbs(FSub(PFD_system,
                               FAdd(args[1],
                                    FMul(FSub(One, args[1]), args[2])))),
                     Dec(1, -4))
        /\ Len(args) = 3 =>
              PFD_system =
                 FSub(One, FMul(FMul(FSub(One, args[1]), FSub(One, args[2])),
                                FSub(One, args[3])))
        /\ (\E i \in 1..Len(args) : args[i] = One) => PFD_system = One
        /\ (\A i \in 1..Len(args) : args[i] = Zero) => PFD_system = Zero

\* C2 witness: PFD_system was called with the module's [PFD_power, PFD_odh].
C2_Witness ==
    /\ pc = "ret"
    /\ args = <<Dec(1, -4), Dec(2, -3)>>
    /\ PFD_system = Dec(21, -4)

\* C2 as stated: for [power, valve, detection] the probability of no response is
\* P(power-fail) x P(valve-fail) + P(power-ok) x P(detection-fail).
C2_ExclusiveCompositeEvents ==
    (pc = "ret" /\ Len(args) = 3) =>
        PFD_system = FAdd(FMul(args[1], args[2]),
                          FMul(FSub(One, args[1]), args[3]))

-----------------------------------------------------------------------------
(* failure_on_demand and odh_volume.fan_fail                               *)

RECURSIVE FPowInt(_, _)
FPowInt(x, k) == IF k = 0 THEN One ELSE FMul(FPowInt(x, k - 1), x)

RECURSIVE Factorial(_)
Factorial(k) == IF k = 0 THEN 1 ELSE k * Factorial(k - 1)

failure_on_demand(m, n, Test_period, Mean_repair_time, failure_rate) ==
    LET MDT == FAdd(FDiv(Test_period, Dec(2, 0)), Mean_repair_time)
    IN  FDiv(FPowInt(FMul(FMul(MDT, failure_rate), Dec(m, 0)), n + 1 - m),
             Dec(Factorial(n + 1 - m), 0))

\* The loop of fan_fail from m down to 0: every pair is inserted at the front.
RECURSIVE fan_fail_loop(_, _, _, _, _, _, _, _)
fan_fail_loop(m, PFD_prev, flowrates, T, MRT, Fail_rate, Q_fan, N_fans) ==
    IF m < 0 THEN flowrates
    ELSE LET PFD_fan == failure_on_demand(m, N_fans, T, MRT, Fail_rate)
             PFD_m_fan_work == FSub(PFD_prev, PFD_fan)
         IN  fan_fail_loop(m - 1, PFD_fan,
                           <<<<PFD_m_fan_work, FMul(Q_fan, Dec(m, 0))>>>>
                               \o flowrates,
                           T, MRT, Fail_rate, Q_fan, N_fans)

\* volume.fan_fail(Test_period, Mean_repair_time, Fail_rate, Q_fan, N_fans)
fan_fail(Test_period, Mean_repair_time, Fail_rate, Q_fan, N_fans) ==
    /\ Fan_flowrates' = fan_fail_loop(N_fans, One, <<>>, Test_period,
                                      Mean_repair_time, Fail_rate, Q_fan, N_fans)
    /\ attrs' = attrs \cup {"Fan_flowrates"}

MaxFans == 4

\* hours, hours, 1/hr, m^3/s, count: the script's month, 3 days, 9.3e-6/hr and
\* 4000 cfm among them
FanFailArgs ==
    {<<T, MRT, rate, Dec(1888, -3), n>> :
        T \in {Dec(730, 0), Dec(24, 0)},
        MRT \in {Dec(72, 0), Zero},
        rate \in {Dec(93, -7), Dec(1, -4), Dec(1, -3), Dec(1, -2)},
        n \in 0..MaxFans}

InitFanFail ==
    /\ NoObjects
    /\ pc = "call"
    /\ args \in FanFailArgs
    /\ ret = <<>>

CallFanFail ==
    /\ pc = "call"
    /\ fan_fail(args[1], args[2], args[3], args[4], args[5])
    /\ pc' = "ret"
    /\ UNCHANGED <<Fluids, Leaks, leak_status, PFD_system, phi, odh_status, calls,
                   args, ret>>

NextFanFail == CallFanFail

SpecFanFail == InitFanFail /\ [][NextFanFail]_vars

RECURSIVE SumProbabilities(_)
SumProbabilities(flowrates) ==
    IF flowrates = <<>> THEN Zero
    ELSE FAdd(SumProbabilities(SubSeq(flowrates, 1, Len(flowrates) - 1)),
              flowrates[Len(flowrates)][1])

\* C4: for every fan count and every failure rate, test interval and mean repair
\* time, the distribution fan_fail stores has every probability >= 0 and its
\* probabilities sum to 1 (within rounding).
C4_FanDistribution ==
    pc = "ret" =>
        /\ Len(Fan_flowrates) = args[5] + 1
        /\ \A i \in 1..Len(Fan_flowrates) : FLe(Zero, Fan_flowrates[i][1])
        /\ FLe(FAbs(FSub(SumProbabilities(Fan_flowrates), One)), Dec(1, -4))

\* What does hold of fan_fail: one pair per fan count, probabilities summing
\* to 1 (within rounding).
FanFail_SumsToOne ==
    pc = "ret" =>
        /\ Len(Fan_flowrates) = args[5] + 1
        /\ FLe(FAbs(FSub(SumProbabilities(Fan_flowrates), One)), Dec(1, -4))

-----------------------------------------------------------------------------
(* Quantities: a rate is [v, per_hr] (per_hr FALSE: a plain number, as the  *)
(* probability 1 of a constant leak); a flow is [v, dim], dim "volume"      *)
(* (m^3/s) or "mass" (kg/s).  An optional value is <<>> or <<value>>.       *)

Rate(v, per_hr) == [v |-> v, per_hr |-> per_hr]

Flow(v, dim) == [v |-> v, dim |-> dim]

\* x ** 0.5, by Newton's iteration
RECURSIVE SqrtIter(_, _, _)
SqrtIter(a, x, k) ==
    IF k = 0 THEN x
    ELSE SqrtIter(a, FDiv(FAdd(x, FDiv(a, x)), Dec(2, 0)), k - 1)

FSqrt(a) ==
    IF a.m = 0 THEN Zero
    ELSE LET E == a.e + 4
             h == (E - (E % 2)) \div 2
         IN  SqrtIter(a, Fl(30000, h - 4), 6)

P_MSC == Dec(101325, -5)    \* bar

\* What heat_transfer returns for the source's fluid at NTP and at pressure P
\* (bar) near NTP temperature: density at NTP (kg/m^3), specific gravity
\* against air, critical pressure ratio (2/(k+1))**(k/(k-1)), and the density
\* ratio D_fluid/D_NTP.
rho_NTP(fluid) == IF fluid = "helium" THEN Dec(1663, -4) ELSE Dec(1165, -3)

specific_gravity(fluid) == IF fluid = "helium" THEN Dec(1382, -4) ELSE Dec(967, -3)

critical_ratio(fluid) == IF fluid = "helium" THEN Dec(4871, -4) ELSE Dec(5283, -4)

density_ratio(Fluid_data) == FDiv(Fluid_data.P, Dec(10135, -4))

\* What heat_transfer.piping returns for a schedule 5 pipe of nominal diameter
\* D (inch): outer diameter and wall (inch), flow area (mm^2).
pipe_OD(D) == <<Dec(1315, -3), Dec(2375, -3), Dec(35, -1), Dec(45, -1)>>[D]

pipe_wall(D) == <<Dec(65, -3), Dec(65, -3), Dec(83, -3), Dec(83, -3)>>[D]

pipe_Area(D) == <<Dec(7116, -1), Dec(25537, -1), Dec(56323, -1), Dec(9518, 0)>>[D]

\* to_standard_flow: [raised, q] with q the standard volumetric flow (m^3/s)
to_standard_flow(flow_rate, Fluid_data) ==
    IF flow_rate.dim = "mass"
    THEN [raised |-> "", q |-> FDiv(flow_rate.v, rho_NTP(Fluid_data.fluid))]
    ELSE IF flow_rate.dim = "volume"
    THEN [raised |-> "", q |-> FMul(flow_rate.v, density_ratio(Fluid_data))]
    ELSE [raised |-> "UnboundLocalError", q |-> Zero]

\* The outcome of to_standard_flow as a flow
to_standard_flow_of(r) == [raised |-> r.raised, q |-> Flow(r.q, "volume")]

\* The subsonic pressure drop at every pressure
leak_DeltaP_subsonic(P_fluid, rc) == FSub(P_fluid, P_MSC)

\* The pressure drop leak_flow selects (bar)
leak_DeltaP(P_fluid, rc) ==
    IF FLt(FMul(P_fluid, rc), P_MSC)
    THEN FSub(P_fluid, P_MSC)
    ELSE FMul(P_fluid, FSub(One, rc))

orifice_flow_gas(Y, d, C, S_g, DeltaP, rho) ==
    FMul(FDiv(FMul(FMul(FMul(Dec(2864, -7), Y), FPowInt(d, 2)), C), S_g),
         FSqrt(FMul(DeltaP, rho)))

orifice_flow_liquid(d, C, DeltaP, rho) ==
    FMul(FMul(FMul(Dec(3512, -7), FPowInt(d, 2)), C), FSqrt(FDiv(DeltaP, rho)))

\* The branch of leak_flow on the quality of the fluid
orifice_flow(Fluid_data, Y, d, C, DeltaP, rho) ==
    IF Fluid_data.quality >= 1
    THEN orifice_flow_gas(Y, d, C, specific_gravity(Fluid_data.fluid), DeltaP, rho)
    ELSE orifice_flow_liquid(d, C, DeltaP, rho)

\* leak_flow: the standard flow (m^3/s) through an opening of area A (mm^2)
leak_flow(Fluid_data, A) ==
    LET d       == FSqrt(FDiv(FMul(Dec(4, 0), A), Dec(31416, -4)))
        Y       == One
        C       == Dec(7, -1)
        rho     == FMul(rho_NTP(Fluid_data.fluid), density_ratio(Fluid_data))
        rc      == critical_ratio(Fluid_data.fluid)
        DeltaP  == leak_DeltaP(Fluid_data.P, rc)
    IN  to_standard_flow(
            Flow(orifice_flow(Fluid_data, Y, d, C, DeltaP, rho), "volume"),
            Fluid_data).q

\* min(flow, max_flow), max_flow the converted cap
limit_flow_min(flow, max_flow) ==
    IF max_flow.raised # "" THEN [raised |-> max_flow.raised, q |-> flow]
    ELSE IF flow.dim # "volume" THEN [raised |-> "DimensionalityError", q |-> flow]
    ELSE [raised |-> "", q |-> Flow(FMin(flow.v, max_flow.q), "volume")]

\* limit_flow(flow, failure_mode): [raised, q]; flow is a standard volumetric flow
\* or, in mode 'other', the caller's flow as given.
limit_flow(flow, failure_mode) ==
    IF failure_mode.max_flow = <<>> \/ failure_mode.max_flow[1].v = Zero
    THEN [raised |-> "", q |-> flow]
    ELSE limit_flow_min(flow, to_standard_flow(failure_mode.max_flow[1],
                                               failure_mode.Fluid_data))

-----------------------------------------------------------------------------
(* odh_source                                                              *)

SourceIds == {1, 2}

source_fluid(s) == IF s = 1 THEN "helium" ELSE "nitrogen"

\* odh_source.__init__ for phase 'gas': Volume (m^3) at pressure (psi)
source_volume(s) ==
    IF s = 1 THEN FDiv(FMul(Dec(50, 0), Dec(147, -1)), Dec(147, -1))
    ELSE FDiv(FMul(Dec(60, 0), Dec(294, -1)), Dec(147, -1))

\* A present key has the new failure rate added to its own
RECURSIVE SetLeak_add_rates(_, _, _, _, _)
SetLeak_add_rates(entries, key, Prob, q_std, tau) ==
    IF entries = <<>> THEN <<[key |-> key, P |-> Prob, q |-> q_std, tau |-> tau]>>
    ELSE IF entries[1].key = key
    THEN <<[key |-> key, P |-> Rate(FAdd(entries[1].P.v, Prob.v), Prob.per_hr),
            q |-> q_std, tau |-> tau]>> \o Tail(entries)
    ELSE <<entries[1]>> \o SetLeak_add_rates(Tail(entries), key, Prob, q_std, tau)

\* self.Leaks[key] = (Prob, q_std, tau): a present key keeps its place
RECURSIVE SetLeak(_, _, _, _, _)
SetLeak(entries, key, Prob, q_std, tau) ==
    LET new == [key |-> key, P |-> Prob, q |-> q_std, tau |-> tau] IN
    IF entries = <<>> THEN <<new>>
    ELSE IF entries[1].key = key THEN <<new>> \o Tail(entries)
    ELSE <<entries[1]>> \o SetLeak(Tail(entries), key, Prob, q_std, tau)

LeakKeys(entries) == {entries[i].key : i \in 1..Len(entries)}

\* The outcome of storing one leak of opening flow q_std: tau = volume/q_std
StoreLeak(s, entries, key, Prob, q_std) ==
    IF q_std.m = 0
    THEN [raised |-> "ZeroDivisionError", Leaks |-> entries]
    ELSE [raised |-> "",
          Leaks |-> SetLeak(entries, key, Prob, q_std,
                            FDiv(source_volume(s), q_std))]

\* tau and the assignment to self.Leaks, q the outcome of limit_flow
StoreLimited(s, entries, key, Prob, q) ==
    IF q.raised # "" THEN [raised |-> q.raised, Leaks |-> entries]
    ELSE IF q.q.dim # "volume"
    THEN [raised |-> "DimensionalityError", Leaks |-> entries]
    ELSE StoreLeak(s, entries, key, Prob, q.q.v)

Causes ==
    <<"small leak", "large leak", "rupture",
      "weld small leak", "weld large leak", "weld rupture">>

\* 'large leak' for every diameter
calculate_gas_leak_any_size(s, entries, cause, failure_mode) ==
    LET D       == failure_mode.Pipe.D_nom
        L       == failure_mode.Pipe.L
        N_welds == failure_mode.N_welds
        welds   == cause \in {"weld small leak", "weld large leak", "weld rupture"}
        per     == IF cause = "small leak" THEN FMul(Dec(1, -9), L)
                   ELSE IF cause = "large leak" THEN FMul(Dec(1, -10), L)
                   ELSE IF cause = "rupture"
                   THEN FMul(FMul(Dec(3, 0), Dec(1, -11)), L)
                   ELSE Zero
        Area    == IF cause \in {"small leak", "weld small leak"} THEN Dec(10, 0)
                   ELSE IF cause \in {"large leak", "weld large leak"}
                   THEN Dec(1000, 0)
                   ELSE pipe_Area(D)
    IN  IF welds /\ N_welds = <<>>
        THEN [raised |-> "TypeError", Leaks |-> entries]
        ELSE LET n    == IF welds THEN N_welds[1] ELSE 0
                 w    == IF cause = "weld small leak" THEN Dec(1, -11)
                         ELSE IF cause = "weld large leak" THEN Dec(1, -12)
                         ELSE Dec(1, -13)
                 k    == IF cause = "weld rupture" THEN 6 ELSE 2
                 Prob == IF welds
                         THEN FDiv(FMul(FMul(Dec(n * k, 0), w), pipe_OD(D)),
                                   pipe_wall(D))
                         ELSE per
             IN  StoreLimited(s, entries, <<cause, D>>, Rate(Prob, TRUE),
                              limit_flow(
                                  Flow(leak_flow(failure_mode.Fluid_data, Area),
                                       "volume"),
                                  failure_mode))

\* calculate_gas_leak(cause, failure_mode) on source s: [raised, Leaks]
calculate_gas_leak(s, entries, cause, failure_mode) ==
    IF cause \in {"large leak", "weld large leak"} /\ ~(failure_mode.Pipe.D_nom > 2)
    THEN [raised |-> "", Leaks |-> entries]
    ELSE calculate_gas_leak_any_size(s, entries, cause, failure_mode)

RECURSIVE gas_line_loop(_, _, _, _)
RECURSIVE gas_line_next(_, _, _, _)
\* An exception of calculate_gas_leak ends the loop
gas_line_next(s, r, i, failure_mode) ==
    IF r.raised # "" THEN r ELSE gas_line_loop(s, r.Leaks, i + 1, failure_mode)

gas_line_loop(s, entries, i, failure_mode) ==
    IF i > Len(Causes) THEN [raised |-> "", Leaks |-> entries]
    ELSE gas_line_next(s, calculate_gas_leak(s, entries, Causes[i], failure_mode),
                       i, failure_mode)

\* The failure mode as leak() sees it: Fluid_data carries the source's fluid.
WithFluid(s, failure_mode) ==
    [failure_mode EXCEPT !.Fluid_data =
        [fluid |-> source_fluid(s), P |-> @.P, quality |-> @.quality]]

fluid_line_rupture(s, r, fm) ==
    IF r.raised # "" THEN r
    ELSE StoreLimited(s, r.Leaks, <<"fluid line rupture">>,
                      Rate(FMul(Dec(fm.N_lines * 5, 0), Dec(1, -8)), TRUE),
                      limit_flow(Flow(leak_flow(fm.Fluid_data,
                                                pipe_Area(fm.Pipe.D_nom)),
                                      "volume"), fm))

fluid_line(s, entries, fm) ==
    fluid_line_rupture(
        s,
        StoreLimited(s, entries, <<"fluid line leak">>,
                     Rate(FMul(Dec(fm.N_lines * 5, 0), Dec(1, -7)), TRUE),
                     limit_flow(Flow(leak_flow(fm.Fluid_data, Dec(10, 0)),
                                     "volume"), fm)),
        fm)

dewar(s, entries, fm) ==
    StoreLimited(s, entries, <<"loss of vacuum to air">>, Rate(Dec(1, -6), TRUE),
                 limit_flow(fm.q_relief, fm))

\* to_standard_flow of the limited flow, then tau and the assignment
other_store(s, entries, fm, q) ==
    IF q.raised # "" THEN [raised |-> q.raised, Leaks |-> entries]
    ELSE StoreLimited(s, entries, <<fm.cause>>, fm.Prob,
                      to_standard_flow_of(to_standard_flow(q.q, fm.Fluid_data)))

other(s, entries, fm) == other_store(s, entries, fm, limit_flow(fm.q, fm))

\* source.leak(failure_mode): [raised, Leaks], Leaks the map as the call leaves it
leak_result(s, entries, failure_mode) ==
    LET fm == WithFluid(s, failure_mode) IN
    IF fm.mode = "gas line" THEN gas_line_loop(s, entries, 1, fm)
    ELSE IF fm.mode = "fluid line" THEN fluid_line(s, entries, fm)
    ELSE IF fm.mode = "dewar" THEN dewar(s, entries, fm)
    ELSE IF fm.mode = "other" THEN other(s, entries, fm)
    ELSE [raised |-> "ValueError", Leaks |-> entries]

leak_ends(s, r) ==
    /\ Leaks' = [Leaks EXCEPT ![s] = r.Leaks]
    /\ leak_status' = IF r.raised = "" THEN "returned" ELSE r.raised

leak(s, failure_mode) == leak_ends(s, leak_result(s, Leaks[s], failure_mode))

-----------------------------------------------------------------------------
(* leak() calls on the sources                                             *)

MaxLeakCalls == 2

NoMaxFlow == <<>>

Pressures == {Dec(15, -1), Dec(233, -2)}    \* bar: subsonic and sonic

FailureMode(mode, D, N_welds, P, quality, max_flow, q, cause, Prob) ==
    [mode |-> mode, Pipe |-> [L |-> Dec(10, 0), D_nom |-> D],
     N_welds |-> N_welds, N_lines |-> 2,
     Fluid_data |-> [P |-> P, quality |-> quality], max_flow |-> max_flow,
     q_relief |-> q, q |-> q, cause |-> cause, Prob |-> Prob]

MaxFlows ==
    {NoMaxFlow, <<Flow(Dec(211, -3), "mass")>>, <<Flow(Dec(5, -3), "mass")>>}

GasLines ==
    {FailureMode("gas line", D, N_welds, P, 1, max_flow, Flow(Zero, "volume"),
                 "", Rate(Zero, TRUE)) :
        D \in 1..4, N_welds \in {<<>>, <<2>>}, P \in Pressures,
        max_flow \in MaxFlows}

FluidLines ==
    {FailureMode("fluid line", D, <<>>, Dec(233, -2), 0, max_flow,
                 Flow(Zero, "volume"), "", Rate(Zero, TRUE)) :
        D \in {1, 3}, max_flow \in MaxFlows}

Dewars ==
    {FailureMode("dewar", 1, <<>>, Dec(233, -2), 1, max_flow, q, "",
                 Rate(Zero, TRUE)) :
        q \in {Flow(Dec(5, -2), "volume"), Flow(Dec(1, -1), "mass")},
        max_flow \in MaxFlows}

Others ==
    {FailureMode("other", 1, <<>>, Dec(233, -2), 1, max_flow, q, "vent", Prob) :
        q \in {Flow(Dec(2, -2), "volume"), Flow(Dec(1, -2), "mass")},
        Prob \in {Rate(One, FALSE), Rate(Dec(1, -2), TRUE)},
        max_flow \in MaxFlows}

Unsupported ==
    {FailureMode("pump", 1, <<>>, Dec(233, -2), 1, NoMaxFlow,
                 Flow(Zero, "volume"), "", Rate(Zero, TRUE))}

FailureModes == GasLines \cup FluidLines \cup Dewars \cup Others \cup Unsupported

\* The failure modes of the calls that follow the first one on the sources
LaterModes ==
    {fm \in FailureModes :
        /\ fm.max_flow = NoMaxFlow
        /\ fm.mode = "gas line" => (fm.N_welds # <<>> /\ fm.Pipe.D_nom = 3)
        /\ fm.mode = "fluid line" => fm.Pipe.D_nom = 3
        /\ fm.Fluid_data.P = Dec(233, -2)
        /\ fm.q.dim = "volume"
        /\ fm.mode # "pump"}

InitLeak ==
    /\ Fluids = {}
    /\ Leaks = [s \in SourceIds |-> <<>>]
    /\ leak_status = "none"
    /\ attrs = {}
    /\ Fan_flowrates = <<>>
    /\ PFD_system = Zero
    /\ phi = Zero
    /\ odh_status = NotRun
    /\ calls = [leak |-> 0, odh |-> 0]
    /\ pc = "init"
    /\ args = <<>>
    /\ ret = <<>>

CallLeak ==
    \E s \in SourceIds, failure_mode \in FailureModes :
        /\ calls.leak < MaxLeakCalls
        /\ calls.leak > 0 => failure_mode \in LaterModes
        /\ leak(s, failure_mode)
        /\ calls' = [calls EXCEPT !.leak = @ + 1]
        /\ pc' = "leak"
        /\ args' = <<s, failure_mode>>
        /\ UNCHANGED <<Fluids, attrs, Fan_flowrates, PFD_system, phi, odh_status,
                       ret>>

NextLeak == CallLeak

SpecLeak == InitLeak /\ [][NextLeak]_vars

GasLineKeys(D, causes) == {<<cause, D>> : cause \in causes}

\* C10: after a 'gas line' leak() that returns, called on a source with an empty
\* Leaks map, the map holds the small-leak and rupture entries of the piping and
\* of the welds for every nominal diameter, and 'large leak' and 'weld large
\* leak' exactly when the diameter is > 2 in.
C10_LargeLeakOnlyAboveTwoInch ==
    (pc = "leak" /\ calls.leak = 1 /\ args[2].mode = "gas line"
        /\ leak_status = "returned") =>
        LET D == args[2].Pipe.D_nom
            always == GasLineKeys(D, {"small leak", "rupture",
                                      "weld small leak", "weld rupture"})
            large == GasLineKeys(D, {"large leak", "weld large leak"})
        IN  /\ LeakKeys(Leaks[args[1]]) =
                   IF D > 2 THEN always \cup large ELSE always
            /\ Len(Leaks[args[1]]) = Cardinality(LeakKeys(Leaks[args[1]]))

\* C10 witness: a gas line of 2 in nominal diameter has been entered on an empty
\* source; its four entries are stored, none of them a large leak.
C10_Witness ==
    /\ pc = "leak" /\ calls.leak = 1 /\ leak_status = "returned"
    /\ args[2].mode = "gas line" /\ args[2].Pipe.D_nom = 2
    /\ Len(Leaks[args[1]]) = 4
    /\ <<"large leak", 2>> \notin LeakKeys(Leaks[args[1]])
    /\ <<"weld rupture", 2>> \in LeakKeys(Leaks[args[1]])

\* The cap of a failure mode entered on source s, converted to standard flow
ConvertedCap(s, fm) ==
    to_standard_flow(fm.max_flow[1], WithFluid(s, fm).Fluid_data).q

\* What the same call on an empty source stores when the failure mode has no cap
Uncapped(s, fm) == leak_result(s, <<>>, [fm EXCEPT !.max_flow = NoMaxFlow]).Leaks

\* Every entry holds the smaller of the uncapped standard flow and the converted
\* cap, and the source volume divided by that flow
ClampedEntries(s, fm, entries) ==
    \A i \in 1..Len(entries) :
        /\ FLe(entries[i].q, ConvertedCap(s, fm))
        /\ entries[i].q = FMin(Uncapped(s, fm)[i].q, ConvertedCap(s, fm))
        /\ entries[i].tau = FDiv(source_volume(s), entries[i].q)

FirstLeakWithCap ==
    /\ pc = "leak" /\ calls.leak = 1 /\ leak_status = "returned"
    /\ args[2].max_flow # NoMaxFlow

\* C11: for every leak event leak() stores, in every mode, when the failure mode
\* has a maximum-flow cap, the stored standard flow is the smaller of the
\* uncapped standard flow and the cap converted to standard flow, so it never
\* exceeds the converted cap, and the stored duration is the source volume
\* divided by that flow.
C11_StoredFlowIsClamped ==
    FirstLeakWithCap => ClampedEntries(args[1], args[2], Leaks[args[1]])

\* What does hold of the cap: the modes 'gas line', 'fluid line' and 'dewar'
\* store the smaller of the flow and the converted cap.
LimitFlow_ClampsLinesAndDewar ==
    (FirstLeakWithCap /\ args[2].mode # "other") =>
        ClampedEntries(args[1], args[2], Leaks[args[1]])

\* A capped flow has been stored by a line and by a dewar
LimitFlow_Reached ==
    /\ FirstLeakWithCap /\ args[2].mode \in {"gas line", "dewar"}
    /\ \E i \in 1..Len(Leaks[args[1]]) :
           /\ Leaks[args[1]][i].q = ConvertedCap(args[1], args[2])
           /\ Uncapped(args[1], args[2])[i].q # ConvertedCap(args[1], args[2])

\* What leak(failure_mode) stores on a source whose Leaks map is empty
FreshEntries(s, failure_mode) == leak_result(s, <<>>, failure_mode).Leaks

\* after holds one entry per key: the entries of fresh under their keys, and the
\* entries of before under every other key
ReplacedByKey(before, after, fresh) ==
    /\ Len(after) = Cardinality(LeakKeys(after))
    /\ LeakKeys(after) = LeakKeys(before) \cup LeakKeys(fresh)
    /\ \A i \in 1..Len(after) :
           IF \E j \in 1..Len(fresh) : fresh[j].key = after[i].key
           THEN \E j \in 1..Len(fresh) : fresh[j] = after[i]
           ELSE \E j \in 1..Len(before) : before[j] = after[i]

\* C13: across leak() calls on one source the Leaks map holds one entry per key;
\* a call that produces a key already present replaces that entry's (rate, flow,
\* duration) with the new values, the rates are not added, and every entry under
\* another key, and the other source, is left unchanged.
C13_OneEntryPerKey ==
    [][pc' = "leak" =>
           /\ \A t \in SourceIds \ {args'[1]} : Leaks'[t] = Leaks[t]
           /\ \A fresh \in {FreshEntries(args'[1], args'[2])} :
                  ReplacedByKey(Leaks[args'[1]], Leaks'[args'[1]], fresh)
      ]_vars

\* C13 witness: after two leak() calls, the second a 3 in gas line on the helium
\* source, that source holds the six entries of that gas line with the values of
\* the second call, next to a 'vent' entry of another call, and the nitrogen
\* source holds nothing.
C13_Witness ==
    /\ pc = "leak" /\ calls.leak = 2 /\ leak_status = "returned"
    /\ args[1] = 1 /\ args[2].mode = "gas line" /\ args[2].Pipe.D_nom = 3
    /\ Leaks[2] = <<>>
    /\ Len(Leaks[1]) = 7
    /\ Leaks[1][1].key = <<"vent">>
    /\ SubSeq(Leaks[1], 2, 7) = FreshEntries(1, args[2])

-----------------------------------------------------------------------------
(* odh_volume.odh                                                          *)

\* odh_volume.volume (m^3)
volume == Dec(100, 0)

\* No assignment at the start of the run
odh_accumulate(previous) == [phi |-> previous, added |-> FALSE, raised |-> ""]

\* The running sum before the first source: phi = 0, whatever the attribute
\* held (previous).  added tells the int 0 from a sum that has received a term.
odh_reset(previous) == [phi |-> Zero, added |-> FALSE, raised |-> ""]

\* P_i*F_i >= 1e-9/ureg.hr: pint compares a Quantity with a plain number only
\* when that number is zero, so the plain-number product of a constant leak
\* (P_leak = 1) raises unless it is zero.
CompareRaises(P_leak, x) == ~P_leak.per_hr /\ x.m # 0

odh_no_response(P_leak, F_i) == FMul(FMul(P_leak.v, PFD_system), F_i)

\* The fan-state term without the probability that the ODH system works
odh_fan_state_no_system(P_leak, P_fan, F_i) == FMul(FMul(P_leak.v, P_fan), F_i)

odh_fan_state(P_leak, P_fan, F_i) ==
    FMul(FMul(FMul(P_leak.v, FSub(One, PFD_system)), P_fan), F_i)

RECURSIVE odh_fans(_, _, _)
RECURSIVE odh_fans_add(_, _, _, _)
\* The comparison and self.phi += P_i*F_i for the fan state i, x = P_i*F_i
odh_fans_add(acc, e, i, x) ==
    IF CompareRaises(e.P, x)
    THEN [acc EXCEPT !.raised = "ValueError: Cannot compare Quantity"]
    ELSE odh_fans([acc EXCEPT !.phi = FAdd(@, x)], e, i + 1)

odh_fans(acc, e, i) ==
    IF i > Len(Fan_flowrates) THEN acc
    ELSE odh_fans_add(
             acc, e, i,
             odh_fan_state(
                 e.P, Fan_flowrates[i][1],
                 fatality_prob(conc_vent(volume, e.q, Fan_flowrates[i][2], e.tau))))

\* The fan states of the entry e, once the no-response term is in the sum
odh_leak_fans(sum, e) ==
    IF "Fan_flowrates" \in attrs THEN odh_fans(sum, e, 1)
    ELSE [sum EXCEPT !.raised = "Exception: Need to calculate Fan flowrates first"]

\* The comparison and self.phi += P_i*F_i for the no-response term x
odh_leak_add(acc, e, x) ==
    IF CompareRaises(e.P, x)
    THEN [acc EXCEPT !.raised = "ValueError: Cannot compare Quantity"]
    ELSE odh_leak_fans([acc EXCEPT !.phi = FAdd(@, x), !.added = TRUE], e)

\* The body of the loop over the leaks of a source, for the entry e
odh_leak(acc, e) ==
    IF "PFD_system" \notin attrs THEN [acc EXCEPT !.raised = "TypeError"]
    ELSE odh_leak_add(
             acc, e,
             odh_no_response(e.P,
                             fatality_prob(conc_vent(volume, e.q, Zero, e.tau))))

RECURSIVE odh_leaks(_, _, _)
odh_leaks(acc, entries, i) ==
    IF acc.raised # "" \/ i > Len(entries) THEN acc
    ELSE odh_leaks(odh_leak(acc, entries[i]), entries, i + 1)

RECURSIVE odh_sources(_, _, _)
odh_sources(acc, Sources, j) ==
    IF acc.raised # "" \/ j > Len(Sources) THEN acc
    ELSE IF source_fluid(Sources[j]) \in Fluids
    THEN odh_sources(odh_leaks(acc, Leaks[Sources[j]], 1), Sources, j + 1)
    ELSE odh_sources(acc, Sources, j + 1)

\* The end of volume.odh(Sources): the two prints at the end ('{:.3}' does not
\* format the int 0) and the class
odh_ends(r) ==
    /\ phi' = r.phi
    /\ attrs' = attrs \cup {"phi"}
    /\ odh_status' =
           IF r.raised # "" THEN Raised(r.raised)
           ELSE IF ~r.added
           THEN Raised("ValueError: Precision not allowed in integer format")
           ELSE odh_class(r.phi)

odh(Sources) == odh_ends(odh_sources(odh_reset(phi), Sources, 1))

-----------------------------------------------------------------------------
(* The objects of an analysis: two sources, one volume                     *)

MaxOdhCalls == 2

PFD_power == Dec(1, -4)

PFD_odh == Dec(2, -3)

System_fail_prob == <<PFD_power, PFD_odh>>

\* leak() calls of the analysis: a gas line and a constant purge on the helium
\* source, a rated vent and a dewar on the nitrogen source
SourceLeaks ==
    {<<1, FailureMode("gas line", 2, <<2>>, Dec(233, -2), 1, NoMaxFlow,
                      Flow(Zero, "volume"), "", Rate(Zero, TRUE))>>,
     <<1, FailureMode("other", 1, <<>>, Dec(233, -2), 1, NoMaxFlow,
                      Flow(Dec(2, -2), "volume"), "purge", Rate(One, FALSE))>>,
     <<2, FailureMode("other", 1, <<>>, Dec(233, -2), 1, NoMaxFlow,
                      Flow(Dec(2, -2), "volume"), "vent", Rate(Dec(1, -2), TRUE))>>,
     <<2, FailureMode("dewar", 1, <<>>, Dec(233, -2), 1, NoMaxFlow,
                      Flow(Dec(5, -2), "volume"), "", Rate(Zero, TRUE))>>}

SourceLists == {<<>>, <<2>>, <<1, 2>>}

Init ==
    /\ Fluids \in {{"helium"}, {"helium", "nitrogen"}}
    /\ Leaks = [s \in SourceIds |-> <<>>]
    /\ leak_status = "none"
    /\ attrs = {}
    /\ Fan_flowrates = <<>>
    /\ PFD_system = Zero
    /\ phi = Zero
    /\ odh_status = NotRun
    /\ calls = [leak |-> 0, odh |-> 0]
    /\ pc = "init"
    /\ args = <<>>
    /\ ret = <<>>

\* leak() calls come first, as in the script
Leak ==
    \E c \in SourceLeaks :
        /\ calls.leak < MaxLeakCalls /\ calls.odh = 0
        /\ leak(c[1], c[2])
        /\ calls' = [calls EXCEPT !.leak = @ + 1]
        /\ pc' = "leak"
        /\ args' = c
        /\ UNCHANGED <<Fluids, attrs, Fan_flowrates, PFD_system, phi, odh_status,
                       ret>>

FanFail ==
    /\ fan_fail(Dec(730, 0), Dec(72, 0), Dec(93, -7), Dec(1888, -3), 1)
    /\ pc' = "fan_fail"
    /\ args' = <<>>
    /\ UNCHANGED <<Fluids, Leaks, leak_status, PFD_system, phi, odh_status, calls,
                   ret>>

PFDSystem ==
    /\ PFD_system_method(System_fail_prob)
    /\ pc' = "PFD_system"
    /\ args' = <<>>
    /\ UNCHANGED <<Fluids, Leaks, leak_status, Fan_flowrates, phi, odh_status,
                   calls, ret>>

Odh ==
    \E Sources \in SourceLists :
        /\ calls.odh < MaxOdhCalls
        /\ odh(Sources)
        /\ calls' = [calls EXCEPT !.odh = @ + 1]
        /\ pc' = "odh"
        /\ args' = Sources
        /\ UNCHANGED <<Fluids, Leaks, leak_status, Fan_flowrates, PFD_system, ret>>

Next == Leak \/ FanFail \/ PFDSystem \/ Odh

Spec == Init /\ [][Next]_vars

-----------------------------------------------------------------------------
(* Properties of odh                                                       *)

\* The leak events of the sources whose fluid is among the volume's fluids
RECURSIVE LeakEvents(_)
LeakEvents(Sources) ==
    IF Sources = <<>> THEN <<>>
    ELSE (IF source_fluid(Head(Sources)) \in Fluids
          THEN Leaks[Head(Sources)] ELSE <<>>) \o LeakEvents(Tail(Sources))

\* fatality_prob of the concentration at the exposure duration with fan flow Q
FatalityAt(e, Q) == fatality_prob(conc_vent(volume, e.q, Q, e.tau))

PowerOk == FSub(One, PFD_power)

DetectionOk == FSub(One, PFD_odh)

\* The contributions of one leak event: no response, then every fan state
Contributions(e) ==
    <<FMul(FMul(e.P.v, PFD_system), FatalityAt(e, Zero))>> \o
    [i \in 1..Len(Fan_flowrates) |->
        FMul(FMul(FMul(e.P.v, FMul(PowerOk, DetectionOk)), Fan_flowrates[i][1]),
             FatalityAt(e, Fan_flowrates[i][2]))]

RECURSIVE AllContributions(_)
AllContributions(events) ==
    IF events = <<>> THEN <<>>
    ELSE Contributions(Head(events)) \o AllContributions(Tail(events))

RECURSIVE SumOf(_)
SumOf(terms) ==
    IF terms = <<>> THEN Zero
    ELSE FAdd(SumOf(SubSeq(terms, 1, Len(terms) - 1)), terms[Len(terms)])

RatedEvents(events) == SelectSeq(events, LAMBDA e : e.P.per_hr)

Configured == {"Fan_flowrates", "PFD_system"} \subseteq attrs

\* C1: after odh(Sources) completes on a volume with a fan-state distribution and
\* a system-failure probability, phi is the sum, over the leak events of the
\* sources whose fluid is among the volume's fluids, of rate x P(no response) x
\* fatality_prob(no ventilation) plus, for every fan state, rate x P(power ok) x
\* P(detection ok) x P(fan state) x fatality_prob(that fan flow); nothing else.
C1_PhiIsSumOfContributions ==
    (pc = "odh" /\ Configured /\ odh_status.raised = "") =>
        phi = SumOf(AllContributions(LeakEvents(args)))

\* C1 witness: odh has completed on both sources for a helium-only volume; the
\* nitrogen source has a leak event that is left out, the helium source has the
\* four events of its gas line, and phi is not zero.
C1_Witness ==
    /\ pc = "odh" /\ Configured /\ odh_status.raised = ""
    /\ args = <<1, 2>> /\ Fluids = {"helium"}
    /\ Len(Leaks[1]) = 4 /\ Len(Leaks[2]) > 0
    /\ phi # Zero

\* C5: whenever odh is called on a volume on which fan_fail was never called, the
\* call ends in the explicit error about the missing fan-state distribution, for
\* every list of sources.
C5_ExplicitPreconditionError ==
    (pc = "odh" /\ "Fan_flowrates" \notin attrs) =>
        odh_status.raised = "Exception: Need to calculate Fan flowrates first"

\* What does hold without a fan-state distribution: odh never completes with a
\* class.
Odh_NoClassWithoutFans ==
    (pc = "odh" /\ "Fan_flowrates" \notin attrs) =>
        (odh_status.raised # "" /\ odh_status.class = -1)

\* C6: phi is reset at the start of every odh run: a second odh on the same
\* sources right after the first leaves the same phi and the same class.
C6_RerunGivesSamePhi ==
    [][(pc = "odh" /\ pc' = "odh" /\ args' = args) =>
           (phi' = phi /\ odh_status' = odh_status)]_vars

\* C6 witness: odh has run twice and ended with a nonzero phi of class 2.
C6_Witness ==
    /\ pc = "odh" /\ calls.odh = 2
    /\ odh_status.class = 2 /\ phi # Zero

\* C7: a constant leak (mode 'other', probability 1) contributes nothing to phi,
\* and odh still completes with the contributions of the other leak events.
C7_ConstantLeakOmitted ==
    (pc = "odh" /\ Configured
        /\ \E i \in 1..Len(LeakEvents(args)) : ~LeakEvents(args)[i].P.per_hr) =>
        /\ odh_status.raised \in {"", "Exception: ODH fatality rate is too high"}
        /\ phi = SumOf(AllContributions(RatedEvents(LeakEvents(args))))

-----------------------------------------------------------------------------
(* The pressure drop of leak_flow at two upstream pressures                *)

MaxPressureStep == 30

PressureStep == Dec(1, -4)

\* <<fluid, P, P + step>> (bar): steps of 0.1 bar from 1.1 bar, and steps of
\* 1e-4 bar around the pressure at which P_MSC = P*rc (2.0801 bar for helium,
\* 1.9179 bar for nitrogen)
DeltaPArgs ==
    {<<"helium", Dec(k, -1), Dec(k + 1, -1)>> : k \in 11..MaxPressureStep}
        \cup {<<"nitrogen", Dec(k, -1), Dec(k + 1, -1)>> : k \in 11..MaxPressureStep}
        \cup {<<"helium", Dec(k, -4), FAdd(Dec(k, -4), PressureStep)>> :
                k \in 20790..20810}
        \cup {<<"nitrogen", Dec(k, -4), FAdd(Dec(k, -4), PressureStep)>> :
                k \in 19170..19190}

InitDeltaP ==
    /\ NoObjects
    /\ pc = "call"
    /\ args \in DeltaPArgs
    /\ ret = <<>>

CallDeltaP ==
    /\ pc = "call"
    /\ ret' = <<leak_DeltaP(args[2], critical_ratio(args[1])),
                leak_DeltaP(args[3], critical_ratio(args[1]))>>
    /\ pc' = "ret"
    /\ UNCHANGED args
    /\ ObjectsUnchanged

NextDeltaP == CallDeltaP

SpecDeltaP == InitDeltaP /\ [][NextDeltaP]_vars

\* The downstream pressure P_MSC exceeds upstream pressure x critical ratio
Subsonic(fluid, P) == FLt(FMul(P, critical_ratio(fluid)), P_MSC)

\* C12: the pressure drop is upstream - downstream when the downstream pressure
\* exceeds upstream x critical ratio and upstream x (1 - critical ratio)
\* otherwise; the two expressions meet at the threshold, so between two upstream
\* pressures the pressure drop changes by no more than the pressures differ
\* (within rounding): there is no jump.
C12_PressureDropSelection ==
    pc = "ret" =>
        /\ \A i \in 1..2 :
               ret[i] = IF Subsonic(args[1], args[i + 1])
                        THEN FSub(args[i + 1], P_MSC)
                        ELSE FMul(args[i + 1],
                                  FSub(One, critical_ratio(args[1])))
        /\ FLe(FAbs(FSub(ret[2], ret[1])),
               FAdd(FSub(args[3], args[2]), Dec(2, -4)))

\* C12 witness: the two upstream pressures, 1e-4 bar apart, lie on the two sides
\* of the threshold; the first drop is the subsonic one, the second the sonic one.
C12_Witness ==
    /\ pc = "ret"
    /\ Subsonic(args[1], args[2]) /\ ~Subsonic(args[1], args[3])
    /\ FSub(args[3], args[2]) = PressureStep
    /\ ret[1] = FSub(args[2], P_MSC)
    /\ ret[2] = FMul(args[3], FSub(One, critical_ratio(args[1])))

\* C12 as stated: across the threshold the pressure drop jumps, by more than ten
\* times the step between the two pressures.
C12_JumpAtThreshold ==
    (pc = "ret" /\ Subsonic(args[1], args[2]) /\ ~Subsonic(args[1], args[3])) =>
        FLt(FMul(Dec(10, 0), FSub(args[3], args[2])), FAbs(FSub(ret[2], ret[1])))

====
